---- MODULE Spec2Model ----
(***************************************************************************)
(* Model of scripts/ceo_brief.js, the daily brief generator.  A run reads  *)
(* ops/priorities.md, extracts its sections, looks up the latest dated     *)
(* brief in ops/briefs, renders and writes ops/briefs/<date>.md, and sends *)
(* a condensed summary to Telegram when both secrets are set.              *)
(*                                                                         *)
(* Text is modelled as a sequence of one-character strings, so that the    *)
(* regular expressions, trim, split and string comparison of the script    *)
(* are computed character by character.                                    *)
(***************************************************************************)
EXTENDS Integers, Sequences, FiniteSets, TLC

VARIABLES
    \* ---- the environment of a run
    now,            \* the UTC instant, in units of six hours
    src,            \* ops/priorities.md: [state, data]
    dirState,       \* ops/briefs: "missing", "ok" or "unreadable"
    files,          \* the entries of ops/briefs: a set of [f, body]
    token,          \* process.env.TELEGRAM_BOT_TOKEN
    chatId,         \* process.env.TELEGRAM_CHAT_ID
    writable,       \* whether the process may create entries under ops/
    \* ---- the run (the async function of lines 76-149)
    pc,             \* the position of the run
    date,           \* const date
    priorities,     \* const priorities
    sections,       \* thisWeek, todayTop, blockers, decisions, notes
    latestBriefPath,\* const latestBriefPath: [found, f]
    yesterdayRef,   \* const yesterdayRef
    managerReport,  \* const managerReport: the values of the template's slots
    execSummary,    \* const execSummary: the values of the template's slots
    netCalls,       \* the number of calls of fetch made by this run
    response,       \* what the messaging endpoint answered to this run
    stdout,         \* the lines printed by console.log in this run
    exitCode,       \* the exit status of the process (-1 while it runs)
    stages,         \* the stages this run has completed, in order
    failedAt,       \* the stage whose exception ended the run ("" if none)
    runs,           \* the number of runs started so far
    start,          \* the output directory as this run found it
    \* ---- a single call of one of the script's pure functions
    input,          \* the arguments of the call
    output,         \* its result
    called          \* whether the call has been made

envVars == <<now, src, dirState, files, token, chatId, writable>>
runVars == <<pc, date, priorities, sections, latestBriefPath, yesterdayRef,
             managerReport, execSummary, netCalls, response, stdout, exitCode,
             stages, failedAt, runs, start>>
fnVars == <<input, output, called>>
vars == <<envVars, runVars, fnVars>>

(***************************************************************************)
(* Bounds of the model.                                                    *)
(***************************************************************************)
MaxRuns == 2
MaxDocLines == 4
MaxFiles == 3
MaxSectionLines == 7

(***************************************************************************)
(* Strings.                                                                *)
(***************************************************************************)
\* The characters \s matches, among those the model's texts are made of.
WhiteSpace == {" ", "\t", "\n"}

\* The line terminators of ^ and $ under the m flag.
LineTerminators == {"\n"}

\* The UTF-16 code unit of a character of a file name: JavaScript's < on
\* strings compares code units.
Code(c) ==
    CASE c = "-" -> 45
      [] c = "." -> 46
      [] c = "0" -> 48
      [] c = "1" -> 49
      [] c = "2" -> 50
      [] c = "3" -> 51
      [] c = "4" -> 52
      [] c = "5" -> 53
      [] c = "6" -> 54
      [] c = "7" -> 55
      [] c = "8" -> 56
      [] c = "9" -> 57
      [] c = "a" -> 97
      [] c = "b" -> 98
      [] c = "d" -> 100
      [] c = "e" -> 101
      [] c = "k" -> 107
      [] c = "m" -> 109
      [] c = "n" -> 110
      [] c = "o" -> 111
      [] c = "s" -> 115
      [] c = "t" -> 116
      [] c = "x" -> 120
      [] OTHER -> 0

Digits == {"0", "1", "2", "3", "4", "5", "6", "7", "8", "9"}

RECURSIVE StrLessFrom(_, _, _)
StrLessFrom(a, b, i) ==
    IF i > Len(a) THEN i <= Len(b)
    ELSE IF i > Len(b) THEN FALSE
    ELSE IF a[i] # b[i] THEN Code(a[i]) < Code(b[i])
    ELSE StrLessFrom(a, b, i + 1)

\* a < b on strings.
StrLess(a, b) == StrLessFrom(a, b, 1)

\* s.slice(from) with from counted from 0.
SliceFrom(s, from) == SubSeq(s, from + 1, Len(s))

\* s.slice(0, to).
SliceTo(s, to) == SubSeq(s, 1, to)

\* s.startsWith(t) at offset p.
HasAt(s, p, t) ==
    /\ p + Len(t) <= Len(s)
    /\ SubSeq(s, p + 1, p + Len(t)) = t

\* s.endsWith(t).
endsWith(s, t) == Len(t) <= Len(s) /\ HasAt(s, Len(s) - Len(t), t)

\* s.indexOf(t): the least offset at which t occurs, or -1.
IndexOf(s, t) ==
    LET hits == {p \in 0..Len(s) : HasAt(s, p, t)}
    IN IF hits = {} THEN -1 ELSE CHOOSE p \in hits : \A q \in hits : p <= q

\* s.replace(t, "") with a string pattern: the first occurrence only.
RemoveFirst(s, t) ==
    LET p == IndexOf(s, t)
    IN IF p = -1 THEN s ELSE SliceTo(s, p) \o SliceFrom(s, p + Len(t))

\* s.trim().
trim(s) ==
    LET keep == {i \in 1..Len(s) : s[i] \notin WhiteSpace}
    IN IF keep = {} THEN <<>>
       ELSE SubSeq(s, CHOOSE i \in keep : \A j \in keep : i <= j,
                      CHOOSE i \in keep : \A j \in keep : j <= i)

\* The index of the k-th line break of s; 0 before the text, Len(s) + 1 after.
BreakAt(s, k) ==
    LET brk == {i \in 1..Len(s) : s[i] = "\n"}
    IN IF k = 0 THEN 0
       ELSE IF k > Cardinality(brk) THEN Len(s) + 1
       ELSE CHOOSE i \in brk : Cardinality({j \in brk : j <= i}) = k

\* s.split("\n"): the pieces between the line breaks, one more than the breaks.
SplitLines(s) ==
    [k \in 1..(Cardinality({i \in 1..Len(s) : s[i] = "\n"}) + 1) |->
        SubSeq(s, BreakAt(s, k - 1) + 1, BreakAt(s, k) - 1)]

RECURSIVE JoinLines(_)
\* lines.join("\n").
JoinLines(lines) ==
    IF lines = <<>> THEN <<>>
    ELSE IF Len(lines) = 1 THEN lines[1]
    ELSE lines[1] \o <<"\n">> \o JoinLines(Tail(lines))

\* lines.slice(0, n).
Take(lines, n) == SubSeq(lines, 1, IF n < Len(lines) THEN n ELSE Len(lines))

(***************************************************************************)
(* Regular expressions: the part of JavaScript's RegExp the script uses.   *)
(* A pattern's source is compiled to a sequence of tokens; matching        *)
(* backtracks in JavaScript's order (a quantifier is greedy), and the      *)
(* first success is the match.  Metacharacters modelled: \ ^ $ . ( ) + *   *)
(* and {n} (a group is not quantified in any pattern the model builds).    *)
(***************************************************************************)
Quantifiers == {"+", "*"}

\* The atom at s[i]: its token and the number of characters it takes.
AtomAt(s, i) ==
    LET c == s[i]
    IN CASE c = "\\" /\ i < Len(s) /\ s[i + 1] = "s" -> [k |-> "ws", c |-> "", w |-> 2]
         [] c = "\\" /\ i < Len(s) /\ s[i + 1] = "d" -> [k |-> "digit", c |-> "", w |-> 2]
         [] c = "\\" /\ i < Len(s) /\ s[i + 1] \notin {"s", "d"} -> [k |-> "lit", c |-> s[i + 1], w |-> 2]
         [] c = "." -> [k |-> "any", c |-> "", w |-> 1]
         [] c = "^" -> [k |-> "bol", c |-> "", w |-> 1]
         [] c = "$" -> [k |-> "eol", c |-> "", w |-> 1]
         [] c = "(" -> [k |-> "open", c |-> "", w |-> 1]
         [] c = ")" -> [k |-> "close", c |-> "", w |-> 1]
         [] OTHER -> [k |-> "lit", c |-> c, w |-> 1]

\* The value of a decimal digit.
DigitValue(c) == Code(c) - Code("0")

\* The token t, n times: the counted quantifier {n}.
Repeat(t, n) == [i \in 1..n |-> t]

RECURSIVE CompileFrom(_, _)
CompileFrom(s, i) ==
    IF i > Len(s) THEN <<>>
    ELSE LET a == AtomAt(s, i)
             j == i + a.w
             counted == j + 2 <= Len(s) /\ s[j] = "{" /\ s[j + 1] \in Digits /\ s[j + 2] = "}"
             q == IF j <= Len(s) /\ s[j] \in Quantifiers THEN s[j] ELSE "1"
         IN IF counted
            THEN Repeat([k |-> a.k, c |-> a.c, q |-> "1"], DigitValue(s[j + 1]))
                 \o CompileFrom(s, j + 3)
            ELSE <<[k |-> a.k, c |-> a.c, q |-> q]>>
                 \o CompileFrom(s, IF q = "1" THEN j ELSE j + 1)

\* new RegExp(source, "m")
Compile(source) == CompileFrom(source, 1)

\* Whether a one-character token accepts character c.
Accepts(t, c) ==
    CASE t.k = "lit" -> c = t.c
      [] t.k = "ws" -> c \in WhiteSpace
      [] t.k = "digit" -> c \in Digits
      [] t.k = "any" -> c \notin LineTerminators
      [] OTHER -> FALSE

\* ^ under the m flag, at offset p of s.
AtLineStart(s, p) == p = 0 \/ s[p] \in LineTerminators

\* $ under the m flag, at offset p of s.
AtLineEnd(s, p) == p = Len(s) \/ s[p + 1] \in LineTerminators

RECURSIVE RunLength(_, _, _)
\* The number of consecutive characters from offset p that token t accepts.
RunLength(t, s, p) ==
    IF p < Len(s) /\ Accepts(t, s[p + 1]) THEN 1 + RunLength(t, s, p + 1) ELSE 0

RECURSIVE Ends(_, _, _, _)
RECURSIVE Greedy(_, _, _, _, _, _)
\* The offsets at which a match of tokens k.. starting at offset p can end,
\* in the order backtracking tries them.
Ends(toks, k, s, p) ==
    IF k > Len(toks) THEN <<p>>
    ELSE LET t == toks[k]
         IN CASE t.k = "bol" -> IF AtLineStart(s, p) THEN Ends(toks, k + 1, s, p) ELSE <<>>
              [] t.k = "eol" -> IF AtLineEnd(s, p) THEN Ends(toks, k + 1, s, p) ELSE <<>>
              [] t.k \in {"open", "close"} -> Ends(toks, k + 1, s, p)
              [] OTHER ->
                   IF t.q = "1"
                   THEN IF p < Len(s) /\ Accepts(t, s[p + 1])
                        THEN Ends(toks, k + 1, s, p + 1)
                        ELSE <<>>
                   ELSE Greedy(toks, k, s, p, RunLength(t, s, p),
                               IF t.q = "+" THEN 1 ELSE 0)

\* A greedy quantifier: the longest repetition first, then one fewer, down to lo.
Greedy(toks, k, s, p, j, lo) ==
    IF j < lo THEN <<>>
    ELSE Ends(toks, k + 1, s, p + j) \o Greedy(toks, k, s, p, j - 1, lo)

\* s.match(re) without the g flag: the leftmost match, [found, index, len].
Match(toks, s) ==
    LET hits == {p \in 0..Len(s) : Ends(toks, 1, s, p) # <<>>}
    IN IF hits = {} THEN [found |-> FALSE, index |-> -1, len |-> 0]
       ELSE LET p == CHOOSE x \in hits : \A y \in hits : x <= y
            IN [found |-> TRUE, index |-> p, len |-> Ends(toks, 1, s, p)[1] - p]

\* s.search(re): the offset of the leftmost match, or -1.
Search(toks, s) == Match(toks, s).index

\* re.test(s).
Test(toks, s) == Match(toks, s).found

(***************************************************************************)
(* extractSection (lines 55-64).                                           *)
(***************************************************************************)
\* The class [.*+?^${}()|[\]\\] of line 57.
RegExpSpecials == {".", "*", "+", "?", "^", "$", "{", "}", "(", ")", "|", "[", "]", "\\"}

RECURSIVE escapeRegExp(_)
\* heading.replace(/[.*+?^${}()|[\]\\]/g, "\\$&")
escapeRegExp(heading) ==
    IF heading = <<>> THEN <<>>
    ELSE (IF Head(heading) \in RegExpSpecials THEN <<"\\", Head(heading)>> ELSE <<Head(heading)>>)
         \o escapeRegExp(Tail(heading))

\* The source of the pattern of line 57: ^##\s+<heading>\s*$
HeadingSource(heading) ==
    <<"^", "#", "#", "\\", "s", "+">> \o escapeRegExp(heading) \o <<"\\", "s", "*", "$">>

\* The source of the pattern of line 62: ^##\s+
NextHeadingSource == <<"^", "#", "#", "\\", "s", "+">>

extractSection(md, heading) ==
    LET m == Match(Compile(HeadingSource(heading)), md)
    IN IF ~m.found THEN <<>>
       ELSE LET rest == SliceFrom(md, m.index + m.len)
                next == Search(Compile(NextHeadingSource), rest)
            IN trim(IF next = -1 THEN rest ELSE SliceTo(rest, next))

(***************************************************************************)
(* Paths (the part of require("path") the script uses).                    *)
(***************************************************************************)
\* path.join(dir, name)
pathJoin(dir, name) == dir \o <<"/">> \o name

\* path.basename(p, ext): the part after the last "/", without the suffix ext.
basename(p, ext) ==
    LET slashes == {i \in 1..Len(p) : p[i] = "/"}
        from == IF slashes = {} THEN 0 ELSE CHOOSE i \in slashes : \A j \in slashes : j <= i
        base == SliceFrom(p, from)
    IN IF endsWith(base, ext) /\ base # ext
       THEN SliceTo(base, Len(base) - Len(ext))
       ELSE base

\* path.join("ops", "briefs") of line 81.
briefDirPath == <<"o", "p", "s", "/", "b", "r", "i", "e", "f", "s">>

DotMd == <<".", "m", "d">>

(***************************************************************************)
(* findLatestBrief (lines 66-74).  A directory is [state, names]; the      *)
(* result is [throws, found, path].                                        *)
(***************************************************************************)
\* The source of the pattern of line 71.
DatePatternSource ==
    <<"^", "\\", "d", "{", "4", "}", "-", "\\", "d", "{", "2", "}", "-",
      "\\", "d", "{", "2", "}", "$">>

\* fs.existsSync(dir)
existsSync(dir) == dir.state # "missing"

RECURSIVE SetToSeq(_)
\* fs.readdirSync(dir): the names, in the order the file system lists them.
SetToSeq(S) ==
    IF S = {} THEN <<>>
    ELSE LET x == CHOOSE y \in S : TRUE IN <<x>> \o SetToSeq(S \ {x})

\* compareDated with the branches exchanged: an ascending sort.
compareDated_ascending(a, b) == IF StrLess(a.d, b.d) THEN -1 ELSE 1

\* The comparator of line 72.
compareDated(a, b) == IF StrLess(a.d, b.d) THEN 1 ELSE -1

RECURSIVE InsertSorted(_, _)
InsertSorted(x, sorted) ==
    IF sorted = <<>> THEN <<x>>
    ELSE IF compareDated(x, Head(sorted)) < 0 THEN <<x>> \o sorted
    ELSE <<Head(sorted)>> \o InsertSorted(x, Tail(sorted))

RECURSIVE SortDated(_)
\* Array.prototype.sort with the comparator of line 72.
SortDated(xs) ==
    IF xs = <<>> THEN <<>> ELSE InsertSorted(Head(xs), SortDated(Tail(xs)))

findLatestBrief(dir) ==
    IF ~existsSync(dir) THEN [throws |-> FALSE, found |-> FALSE, path |-> <<>>]
    ELSE IF dir.state = "unreadable" THEN [throws |-> TRUE, found |-> FALSE, path |-> <<>>]
    ELSE LET mdFiles == SelectSeq(SetToSeq(dir.names), LAMBDA f : endsWith(f, DotMd))
             mapped == [i \in 1..Len(mdFiles) |->
                          [f |-> mdFiles[i], d |-> RemoveFirst(mdFiles[i], DotMd)]]
             dated == SortDated(SelectSeq(mapped,
                          LAMBDA x : Test(Compile(DatePatternSource), x.d)))
         IN IF Len(dated) > 0
            THEN [throws |-> FALSE, found |-> TRUE, path |-> pathJoin(briefDirPath, dated[1].f)]
            ELSE [throws |-> FALSE, found |-> FALSE, path |-> <<>>]

(***************************************************************************)
(* Rendering (lines 98-139).  A rendered text is the record of the values  *)
(* of its template's slots; the fixed text between the slots is left out.  *)
(***************************************************************************)
\* The em dash of the source is written "--".
NotSetLong ==
    <<"_", "(", "N", "o", "t", " ", "s", "e", "t", " ", "-", "-", " ", "u", "p", "d", "a",
      "t", "e", " ", "o", "p", "s", "/", "p", "r", "i", "o", "r", "i", "t", "i", "e", "s",
      ".", "m", "d", ")", "_">>
NoneListed == <<"_", "N", "o", "n", "e", " ", "l", "i", "s", "t", "e", "d", "_">>
NoNotes == <<"_", "N", "o", " ", "n", "o", "t", "e", "s", "_">>
NotSetShort == <<"_", "(", "N", "o", "t", " ", "s", "e", "t", ")", "_">>
NotAvailable == <<"N", "/", "A">>

\* a || b on strings: b when a is empty.
OrElse(a, b) == IF a # <<>> THEN a ELSE b

\* Line 98.
yesterdayRefOf(latest) ==
    IF latest.found THEN basename(latest.path, DotMd) ELSE NotAvailable

\* Lines 100-125.
renderManagerReport(d, secs, ref) ==
    [date |-> d,
     top |-> OrElse(secs.todayTop, NotSetLong),
     ref |-> ref,
     blockers |-> OrElse(secs.blockers, NoneListed),
     decisions |-> OrElse(secs.decisions, NoneListed),
     thisReport |-> pathJoin(briefDirPath, d \o DotMd),
     notes |-> OrElse(secs.notes, NoNotes)]

\* Truncate with the slice one line too long.
Truncate_oneMore(text, n) == JoinLines(Take(SplitLines(text), n + 1))

\* text.split("\n").slice(0, n).join("\n") of lines 135-138.
Truncate(text, n) == JoinLines(Take(SplitLines(text), n))

\* Lines 131-139.
renderExecSummary(repo, d, secs) ==
    [date |-> d,
     topNote |-> IF secs.todayTop # <<>> THEN <<>> ELSE NotSetShort,
     top |-> IF secs.todayTop # <<>> THEN Truncate(secs.todayTop, 6) ELSE <<>>,
     blockers |-> IF secs.blockers # <<>> THEN Truncate(secs.blockers, 4) ELSE NoneListed,
     decisions |-> IF secs.decisions # <<>> THEN Truncate(secs.decisions, 4) ELSE NoneListed,
     url |-> [repo |-> repo, brief |-> d \o DotMd]]

(***************************************************************************)
(* The run's fixed inputs.  The em dash of the source is written "--".     *)
(***************************************************************************)
ThisWeekHeading ==
    <<"T", "h", "i", "s", " ", "W", "e", "e", "k", " ", "O", "u", "t", "c", "o", "m",
      "e", "s", " ", "(", "m", "e", "a", "s", "u", "r", "a", "b", "l", "e", ")">>

TodayTopHeading ==
    <<"T", "o", "d", "a", "y", " ", "-", "-", " ", "T", "o", "p", " ", "P", "r", "i",
      "o", "r", "i", "t", "i", "e", "s", " ", "(", "i", "n", " ", "o", "r", "d", "e",
      "r", ")">>

BlockersHeading ==
    <<"B", "l", "o", "c", "k", "e", "r", "s", " ", "/", " ", "R", "i", "s", "k", "s">>

DecisionsHeading ==
    <<"D", "e", "c", "i", "s", "i", "o", "n", "s", " ", "N", "e", "e", "d", "e", "d">>

NotesHeading ==
    <<"N", "o", "t", "e", "s">>

OnlyTopDoc ==
    <<"#", "#", " ", "T", "o", "d", "a", "y", " ", "-", "-", " ", "T", "o", "p", " ",
      "P", "r", "i", "o", "r", "i", "t", "i", "e", "s", " ", "(", "i", "n", " ", "o",
      "r", "d", "e", "r", ")", "\n", "-", " ", "S", "h", "i", "p", " ", "X", "\n", "-",
      " ", "F", "i", "x", " ", "Y">>

FullDoc ==
    <<"#", " ", "P", "r", "i", "o", "r", "i", "t", "i", "e", "s", "\n", "\n", "#", "#",
      " ", "T", "h", "i", "s", " ", "W", "e", "e", "k", " ", "O", "u", "t", "c", "o",
      "m", "e", "s", " ", "(", "m", "e", "a", "s", "u", "r", "a", "b", "l", "e", ")",
      "\n", "-", " ", "3", " ", "d", "e", "m", "o", "s", "\n", "\n", "#", "#", " ", "T",
      "o", "d", "a", "y", " ", "-", "-", " ", "T", "o", "p", " ", "P", "r", "i", "o",
      "r", "i", "t", "i", "e", "s", " ", "(", "i", "n", " ", "o", "r", "d", "e", "r",
      ")", "\n", "1", ".", " ", "a", "\n", "2", ".", " ", "b", "\n", "3", ".", " ", "c",
      "\n", "4", ".", " ", "d", "\n", "5", ".", " ", "e", "\n", "6", ".", " ", "f", "\n",
      "7", ".", " ", "g", "\n", "\n", "#", "#", " ", "B", "l", "o", "c", "k", "e", "r",
      "s", " ", "/", " ", "R", "i", "s", "k", "s", "\n", "-", " ", "p", "\n", "-", " ",
      "q", "\n", "-", " ", "r", "\n", "-", " ", "s", "\n", "-", " ", "t", "\n", "\n",
      "#", "#", " ", "D", "e", "c", "i", "s", "i", "o", "n", "s", " ", "N", "e", "e",
      "d", "e", "d", " ", " ", "\n", "-", " ", "h", "i", "r", "e", "?", "\n", "#", "#",
      "#", " ", "d", "e", "t", "a", "i", "l", "\n", "y", "e", "s", "\n", "\n", "#", "#",
      " ", "N", "o", "t", "e", "s", "\n">>

SplitHeadingDoc ==
    <<"#", "#", " ", "\n", "N", "o", "t", "e", "s", "\n", "-", " ", "c", "a", "l", "l",
      " ", "B", "o", "b", "\n">>

\* process.env.GITHUB_REPO is taken to be unset: repo is the default of line 77.
DefaultRepo == <<"O", "W", "N", "E", "R", "/", "R", "E", "P", "O">>

\* The contents ops/priorities.md may have when a run starts.
SourceDocs ==
    { [state |-> "missing", data |-> <<>>],
      [state |-> "unreadable", data |-> OnlyTopDoc],
      [state |-> "ok", data |-> <<>>],
      [state |-> "ok", data |-> OnlyTopDoc],
      [state |-> "ok", data |-> FullDoc],
      [state |-> "ok", data |-> SplitHeadingDoc] }

\* An environment variable is unset, set to the empty string, or set.
EnvValues == {"unset", "empty", "set"}

DigitChars == <<"0", "1", "2", "3", "4", "5", "6", "7", "8", "9">>

\* toISOString().slice(0, 10) of a day of January 2024 (day 0 is 2024-01-01).
DateName(day) == <<"2", "0", "2", "4", "-", "0", "1", "-", "0", DigitChars[day + 2]>>

\* todayISO (lines 39-45): the instant is in hours since 2024-01-01T00:00Z;
\* six hours are added and the calendar date is taken.
todayISO(t) == DateName((t + 6) \div 24)

\* The names ops/briefs may hold when the first run starts.
OldNames ==
    { DateName(0) \o DotMd,
      <<"2", "0", "2", "3", "-", "1", "2", "-", "3", "1", ".", "m", "d">>,
      <<"n", "o", "t", "e", "s", ".", "m", "d">> }

\* The body of a file the script did not write in this behaviour.
OldBody == [date |-> <<>>]

\* Lines 91-95: the five sections of a document.
extractAll(md) ==
    [thisWeek |-> extractSection(md, ThisWeekHeading),
     todayTop |-> extractSection(md, TodayTopHeading),
     blockers |-> extractSection(md, BlockersHeading),
     decisions |-> extractSection(md, DecisionsHeading),
     notes |-> extractSection(md, NotesHeading)]

\* extractAll of each document a run can read, tabulated once.
SectionsTable == {<<p.data, extractAll(p.data)>> : p \in SourceDocs}

\* The names ops/briefs can come to hold: the old ones and those the runs write.
KnownNames == OldNames \cup {DateName(day) \o DotMd : day \in 0..((12 * MaxRuns) \div 24)}

\* findLatestBrief of each readable content of ops/briefs, tabulated once.
LatestTable == {<<S, findLatestBrief([state |-> "ok", names |-> S])>> : S \in SUBSET KnownNames}

\* The five extractSection calls of lines 91-95 on the document read.
sectionsOf(md) == (CHOOSE row \in SectionsTable : row[1] = md)[2]

\* findLatestBrief(briefDir) of line 97, for the directory in state st that
\* holds the names given.
latestBriefOf(st, names) ==
    IF st = "ok"
    THEN (CHOOSE row \in LatestTable : row[1] = names)[2]
    ELSE findLatestBrief([state |-> st, names |-> names])

(***************************************************************************)
(* The run: the async function of lines 76-149, one action per statement   *)
(* group, in the order of the source.                                      *)
(***************************************************************************)
\* Successor with the send tried again after the endpoint's answer.
Successor_retry(p) ==
    CASE p = "read" -> "mkdir"
      [] p = "mkdir" -> "extract"
      [] p = "extract" -> "discover"
      [] p = "discover" -> "render"
      [] p = "render" -> "persist"
      [] p = "persist" -> "summary"
      [] p = "summary" -> "send"
      [] p = "send" -> "log"
      [] p = "await" -> "send"
      [] p = "log" -> "done"
      [] OTHER -> "done"

\* The statement that follows statement p when p does not throw.
Successor(p) ==
    CASE p = "read" -> "mkdir"
      [] p = "mkdir" -> "extract"
      [] p = "extract" -> "discover"
      [] p = "discover" -> "render"
      [] p = "render" -> "persist"
      [] p = "persist" -> "summary"
      [] p = "summary" -> "send"
      [] p = "send" -> "log"
      [] p = "await" -> "log"
      [] p = "log" -> "done"
      [] OTHER -> "done"

\* readFileSafe (lines 47-53).
readFileSafe(p) == IF p.state = "ok" THEN p.data ELSE <<>>

\* IsEmptyString with the test left out: an empty text passes for a document.
IsEmptyString_never(s) == FALSE

\* !s for a string.
IsEmptyString(s) == s = <<>>

\* !v for an environment variable.
IsUnset(v) == v \in {"unset", "empty"}

\* SendFailed looking at the transport only, not at the ok field of the answer.
SendFailed_transportOnly(data) == data \in {"neterror", "badjson"}

\* !data.ok (line 34) for the answer of the endpoint.
SendFailed(data) == data # "ok"

\* readdirSync as it would list the directory once today's file is created.
readdirSync_afterWrite == {x.f : x \in files} \cup {todayISO(now) \o DotMd}

\* fs.readdirSync(briefDir): the names in ops/briefs.
readdirSync == {x.f : x \in files}

\* path.join(briefDir, `${date}.md`) of line 82, as the entry's name.
briefName(d) == d \o DotMd

\* fs.writeFileSync(briefPath, body): overwrite.
writeFile(fs, name, body) == {x \in fs : x.f # name} \cup {[f |-> name, body |-> body]}

NoSections ==
    [thisWeek |-> <<>>, todayTop |-> <<>>, blockers |-> <<>>, decisions |-> <<>>,
     notes |-> <<>>]
NoLatest == [throws |-> FALSE, found |-> FALSE, path |-> <<>>]
NoReport == [date |-> <<>>]
NoSummary == [date |-> <<>>]

\* The state of a run before its first statement.
RunStarts ==
    /\ date = <<>>
    /\ priorities = <<>>
    /\ sections = NoSections
    /\ latestBriefPath = NoLatest
    /\ yesterdayRef = <<>>
    /\ managerReport = NoReport
    /\ execSummary = NoSummary
    /\ netCalls = 0
    /\ response = "none"
    /\ stdout = <<>>
    /\ exitCode = -1
    /\ stages = <<>>
    /\ failedAt = ""

\* No call of a pure function is under way.
NoCall == input = <<>> /\ output = <<>> /\ called = FALSE

Init ==
    /\ now = 6
    /\ src \in SourceDocs
    /\ dirState \in {"missing", "ok", "unreadable"}
    /\ files \in {{[f |-> n, body |-> OldBody] : n \in S} :
                    S \in IF dirState = "missing" THEN {{}} ELSE SUBSET OldNames}
    /\ token \in EnvValues
    /\ chatId \in EnvValues
    /\ writable \in BOOLEAN
    /\ pc = "read"
    /\ runs = 1
    /\ start = [dirState |-> dirState, files |-> files]
    /\ RunStarts
    /\ NoCall

\* The rejection handler of lines 146-149: the error is printed to stderr and
\* the process exits with status 1.
Throw(stage) ==
    /\ pc' = "done"
    /\ exitCode' = 1
    /\ failedAt' = stage
    /\ stages' = Append(stages, "exit")

\* Lines 77-87.
ReadSource ==
    /\ pc = "read"
    /\ date' = todayISO(now)
    /\ priorities' = readFileSafe(src)
    /\ IF IsEmptyString(priorities')
       THEN Throw("read")
       ELSE /\ pc' = Successor("read")
            /\ stages' = Append(stages, "read")
            /\ UNCHANGED <<exitCode, failedAt>>
    /\ UNCHANGED <<envVars, fnVars, sections, latestBriefPath, yesterdayRef, managerReport,
                   execSummary, netCalls, response, stdout, runs, start>>

\* Line 89.
EnsureDir ==
    /\ pc = "mkdir"
    /\ IF existsSync([state |-> dirState])
       THEN /\ pc' = Successor("mkdir")
            /\ stages' = Append(stages, "mkdir")
            /\ UNCHANGED <<dirState, exitCode, failedAt>>
       ELSE IF writable
            THEN /\ dirState' = "ok"
                 /\ pc' = Successor("mkdir")
                 /\ stages' = Append(stages, "mkdir")
                 /\ UNCHANGED <<exitCode, failedAt>>
            ELSE /\ Throw("mkdir")
                 /\ UNCHANGED dirState
    /\ UNCHANGED <<now, src, files, token, chatId, writable, fnVars, date, priorities,
                   sections, latestBriefPath, yesterdayRef, managerReport, execSummary,
                   netCalls, response, stdout, runs, start>>

\* Lines 91-95.
Extract ==
    /\ pc = "extract"
    /\ sections' = sectionsOf(priorities)
    /\ pc' = Successor("extract")
    /\ stages' = Append(stages, "extract")
    /\ UNCHANGED <<envVars, fnVars, date, priorities, latestBriefPath, yesterdayRef,
                   managerReport, execSummary, netCalls, response, stdout, exitCode,
                   failedAt, runs, start>>

\* Lines 97-98.
Discover ==
    /\ pc = "discover"
    /\ IF latestBriefOf(dirState, readdirSync).throws
       THEN /\ Throw("discover")
            /\ UNCHANGED <<latestBriefPath, yesterdayRef>>
       ELSE /\ latestBriefPath' = latestBriefOf(dirState, readdirSync)
            /\ yesterdayRef' = yesterdayRefOf(latestBriefPath')
            /\ pc' = Successor("discover")
            /\ stages' = Append(stages, "discover")
            /\ UNCHANGED <<exitCode, failedAt>>
    /\ UNCHANGED <<envVars, fnVars, date, priorities, sections, managerReport, execSummary,
                   netCalls, response, stdout, runs, start>>

\* Lines 100-125.
Render ==
    /\ pc = "render"
    /\ managerReport' = renderManagerReport(date, sections, yesterdayRef)
    /\ pc' = Successor("render")
    /\ stages' = Append(stages, "render")
    /\ UNCHANGED <<envVars, fnVars, date, priorities, sections, latestBriefPath,
                   yesterdayRef, execSummary, netCalls, response, stdout, exitCode,
                   failedAt, runs, start>>

\* Line 128.
Persist ==
    /\ pc = "persist"
    /\ IF writable /\ dirState = "ok"
       THEN /\ files' = writeFile(files, briefName(date), managerReport)
            /\ pc' = Successor("persist")
            /\ stages' = Append(stages, "persist")
            /\ UNCHANGED <<exitCode, failedAt>>
       ELSE /\ Throw("persist")
            /\ UNCHANGED files
    /\ UNCHANGED <<now, src, dirState, token, chatId, writable, fnVars, date, priorities,
                   sections, latestBriefPath, yesterdayRef, managerReport, execSummary,
                   netCalls, response, stdout, runs, start>>

\* Lines 131-139.
Summarize ==
    /\ pc = "summary"
    /\ execSummary' = renderExecSummary(DefaultRepo, date, sections)
    /\ pc' = Successor("summary")
    /\ stages' = Append(stages, "summary")
    /\ UNCHANGED <<envVars, fnVars, date, priorities, sections, latestBriefPath,
                   yesterdayRef, managerReport, netCalls, response, stdout, exitCode,
                   failedAt, runs, start>>

\* Line 142 and lines 10-31 of sendTelegram: without both secrets the send is
\* skipped; with them the request is made and the run waits for the answer.
Send ==
    /\ pc = "send"
    /\ IF IsUnset(token) \/ IsUnset(chatId)
       THEN /\ stdout' = Append(stdout, "skipping")
            /\ pc' = Successor("send")
            /\ UNCHANGED <<netCalls, stages>>
       ELSE /\ netCalls' = netCalls + 1
            /\ pc' = "await"
            /\ stages' = Append(stages, "deliver")
            /\ UNCHANGED stdout
    /\ UNCHANGED <<envVars, fnVars, date, priorities, sections, latestBriefPath,
                   yesterdayRef, managerReport, execSummary, response, exitCode, failedAt,
                   runs, start>>

\* Lines 27-36: the request fails, the body is not JSON, or the answer's ok
\* field is true or falsy.
Receive ==
    /\ pc = "await"
    /\ \E answer \in {"ok", "notok", "neterror", "badjson"} :
          /\ response' = answer
          /\ IF SendFailed(answer)
             THEN Throw("deliver")
             ELSE /\ pc' = Successor("await")
                  /\ UNCHANGED <<exitCode, failedAt, stages>>
    /\ UNCHANGED <<envVars, fnVars, date, priorities, sections, latestBriefPath,
                   yesterdayRef, managerReport, execSummary, netCalls, stdout, runs, start>>

\* Lines 144-145, and the process ends with status 0.
LogSuccess ==
    /\ pc = "log"
    /\ stdout' = stdout \o <<"wrote", "sent">>
    /\ pc' = Successor("log")
    /\ exitCode' = 0
    /\ stages' = Append(stages, "exit")
    /\ UNCHANGED <<envVars, fnVars, date, priorities, sections, latestBriefPath,
                   yesterdayRef, managerReport, execSummary, netCalls, response, failedAt,
                   runs, start>>

\* The script is started again, at once or twelve hours later.
Rerun ==
    /\ pc = "done"
    /\ runs < MaxRuns
    /\ \E later \in {0, 12} : now' = now + later
    /\ runs' = runs + 1
    /\ start' = [dirState |-> dirState, files |-> files]
    /\ pc' = "read"
    /\ date' = <<>>
    /\ priorities' = <<>>
    /\ sections' = NoSections
    /\ latestBriefPath' = NoLatest
    /\ yesterdayRef' = <<>>
    /\ managerReport' = NoReport
    /\ execSummary' = NoSummary
    /\ netCalls' = 0
    /\ response' = "none"
    /\ stdout' = <<>>
    /\ exitCode' = -1
    /\ stages' = <<>>
    /\ failedAt' = ""
    /\ UNCHANGED <<src, dirState, files, token, chatId, writable, fnVars>>

\* A step of the run itself.
RunStep ==
    \/ ReadSource
    \/ EnsureDir
    \/ Extract
    \/ Discover
    \/ Render
    \/ Persist
    \/ Summarize
    \/ Send
    \/ Receive
    \/ LogSuccess

Next == RunStep \/ Rerun

Spec == Init /\ [][Next]_vars

(***************************************************************************)
(* Single calls of the pure functions, on inputs drawn from bounded sets.  *)
(* The run does not move in these specifications.                          *)
(***************************************************************************)
NoRun ==
    /\ now = 6
    /\ src = [state |-> "missing", data |-> <<>>]
    /\ dirState = "missing"
    /\ files = {}
    /\ token = "unset"
    /\ chatId = "unset"
    /\ writable = TRUE
    /\ pc = "off"
    /\ runs = 0
    /\ start = [dirState |-> "missing", files |-> {}]
    /\ RunStarts

\* The lines the documents given to extractSection are made of.
DocLines ==
    { <<"#", "#", " ", "N">>,
      <<"#", "#", " ", "N", " ">>,
      <<"#", "#", " ">>,
      <<"N">>,
      <<"x">>,
      <<" ", "y", " ">>,
      <<>>,
      <<"#", "#", " ", "B">>,
      <<"#", "#", "#", " ", "N">>,
      <<"#", "#", "\t", "(", "N", ")">> }

\* The headings asked for.
TestHeadings == { <<"N">>, <<"(", "N", ")">> }

ExtractInit ==
    /\ NoRun
    /\ input \in {[md |-> JoinLines(ls), heading |-> h] :
                    ls \in UNION {[1..n -> DocLines] : n \in 0..MaxDocLines},
                    h \in TestHeadings}
    /\ output = <<>>
    /\ called = FALSE

CallExtract ==
    /\ ~called
    /\ output' = extractSection(input.md, input.heading)
    /\ called' = TRUE
    /\ UNCHANGED <<envVars, runVars, input>>

ExtractSpec == ExtractInit /\ [][CallExtract]_vars

\* The names a directory given to findLatestBrief may hold.
CandidateNames ==
    { <<"2", "0", "2", "4", "-", "0", "1", "-", "0", "1", ".", "m", "d">>,
      <<"2", "0", "2", "4", "-", "0", "2", "-", "1", "5", ".", "m", "d">>,
      <<"n", "o", "t", "e", "s", ".", "m", "d">>,
      <<"2", "0", "2", "3", "-", "1", "2", "-", "3", "1", ".", "m", "d">>,
      <<"2", "0", "2", "4", "-", "0", "3", "-", "0", "1", ".", "t", "x", "t">>,
      <<"2", "0", "2", "4", "-", "1", "-", "1", ".", "m", "d">>,
      <<"2", "0", "2", "4", "-", "0", "2", "-", "1", "5", ".", "m", "d", ".", "m", "d">>,
      <<"2", "0", "2", "4", "-", "0", "2", "-", "1", "5">>,
      <<"x", "0", "2", "4", "-", "0", "9", "-", "0", "9", ".", "m", "d">>,
      <<"9", "9", "9", "9", "-", "9", "9", "-", "9", "9", ".", "m", "d", ".", "b", "a", "k">> }

FindInit ==
    /\ NoRun
    /\ input \in {[state |-> "ok", names |-> S] :
                    S \in {T \in SUBSET CandidateNames : Cardinality(T) <= MaxFiles}}
                 \cup {[state |-> "missing", names |-> {}]}
    /\ output = <<>>
    /\ called = FALSE

CallFind ==
    /\ ~called
    /\ output' = findLatestBrief(input)
    /\ called' = TRUE
    /\ UNCHANGED <<envVars, runVars, input>>

FindSpec == FindInit /\ [][CallFind]_vars

\* Line i of a section text, in one of two styles; style 2 has blank lines inside.
SectionLine(i, n, style) ==
    IF style = 2 /\ i > 1 /\ i < n /\ i % 2 = 0 THEN <<>>
    ELSE IF style = 2 THEN <<"-", " ", DigitChars[i + 1]>>
    ELSE <<DigitChars[i + 1]>>

\* The section texts given to the summary: trimmed, of 0 to MaxSectionLines lines.
SectionTexts ==
    {JoinLines([i \in 1..n |-> SectionLine(i, n, style)]) :
        n \in 0..MaxSectionLines, style \in 1..2}

SummaryInit ==
    /\ NoRun
    /\ input \in [todayTop : SectionTexts, blockers : SectionTexts, decisions : SectionTexts]
    /\ output = <<>>
    /\ called = FALSE

CallSummary ==
    /\ ~called
    /\ output' = renderExecSummary(DefaultRepo, todayISO(now),
                     [thisWeek |-> <<>>, todayTop |-> input.todayTop,
                      blockers |-> input.blockers, decisions |-> input.decisions,
                      notes |-> <<>>])
    /\ called' = TRUE
    /\ UNCHANGED <<envVars, runVars, input>>

SummarySpec == SummaryInit /\ [][CallSummary]_vars

(***************************************************************************)
(* Vocabulary of the properties.                                           *)
(***************************************************************************)
\* Stage s is among the stages this run has completed.
Completed(s) == \E i \in 1..Len(stages) : stages[i] = s

\* The run has rendered its long-form report.
Rendered == Completed("render")

\* The entry of ops/briefs this run writes.
TodaysEntry == [f |-> briefName(date), body |-> managerReport]

\* The names ops/briefs held when this run started.
NamesAtStart == {x.f : x \in start.files}

\* The number of line breaks in a text.
NewlineCount(s) == Cardinality({i \in 1..Len(s) : s[i] = "\n"})

\* Space and tab: white space that stays within a line.
Blank == {" ", "\t"}

\* The line is "## <heading>": the marker, blanks, the label, and nothing but
\* blanks after it.
IsHeadingLine(line, heading) ==
    /\ HasAt(line, 0, <<"#", "#">>)
    /\ \E a \in 1..Len(line) :
          /\ \A i \in 3..(2 + a) : i <= Len(line) /\ line[i] \in Blank
          /\ HasAt(line, 2 + a, heading)
          /\ \A i \in (3 + a + Len(heading))..Len(line) : line[i] \in Blank

\* The line is a second-level heading line: it starts with "## ".
IsSecondLevelLine(line) ==
    /\ Len(line) >= 3
    /\ HasAt(line, 0, <<"#", "#">>)
    /\ line[3] \in Blank

\* Some line of the document is the heading line of the label.
HasHeadingLine(md, heading) ==
    \E i \in 1..Len(SplitLines(md)) : IsHeadingLine(SplitLines(md)[i], heading)

\* The section of the label read off the document's lines: the lines after the
\* first heading line of the label, up to the next second-level heading line
\* or the end, trimmed.
SectionByLines(md, heading) ==
    LET lines == SplitLines(md)
        hs == {i \in 1..Len(lines) : IsHeadingLine(lines[i], heading)}
        h == CHOOSE i \in hs : \A j \in hs : i <= j
        ends == {i \in (h + 1)..Len(lines) : IsSecondLevelLine(lines[i])}
        e == IF ends = {} THEN Len(lines) + 1 ELSE CHOOSE i \in ends : \A j \in ends : i <= j
    IN trim(JoinLines(SubSeq(lines, h + 1, e - 1)))

\* block is text cut after its first `limit` lines: a prefix of text that ends
\* at a line break of text, or all of text when text has no more lines.
IsLinePrefix(block, text, limit) ==
    /\ Len(block) <= Len(text)
    /\ SliceTo(text, Len(block)) = block
    /\ NewlineCount(block) < limit
    /\ \/ Len(block) = Len(text)
       \/ /\ text[Len(block) + 1] = "\n"
          /\ NewlineCount(block) = limit - 1

\* The name is YYYY-MM-DD.md with digits for Y, M and D.
IsDatedFileName(f) ==
    /\ Len(f) = 13
    /\ \A i \in {1, 2, 3, 4, 6, 7, 9, 10} : f[i] \in Digits
    /\ f[5] = "-" /\ f[8] = "-"
    /\ SubSeq(f, 11, 13) = DotMd

\* The name without its last three characters.
WithoutExtension(f) == SliceTo(f, Len(f) - 3)

C2_MissingSourceNoOutput ==
    (src.state # "ok" /\ pc \notin {"read", "off"}) =>
        /\ pc = "done"
        /\ exitCode # 0
        /\ exitCode # -1
        /\ files = start.files
        /\ dirState = start.dirState
        /\ netCalls = 0
        /\ stdout = <<>>

\* A run without source document has ended, in a repository without ops/briefs.
C2_Witness ==
    /\ src.state = "missing"
    /\ pc = "done"
    /\ start.dirState = "missing"
    /\ writable

(***************************************************************************)
(* C3.                                                                     *)
(***************************************************************************)
\* C3: when both secrets are set and the endpoint has answered with a falsy
\* ok field, the run has ended with a non-zero exit status, the report of
\* today exists with this run's long-form content, written before the
\* request was made, and the success messages were not printed.
C3_DeliveryFailureAfterWrite ==
    response = "notok" =>
        /\ ~IsUnset(token) /\ ~IsUnset(chatId)
        /\ pc = "done"
        /\ exitCode # 0
        /\ exitCode # -1
        /\ TodaysEntry \in files
        /\ managerReport = renderManagerReport(date, sections, yesterdayRef)
        /\ \E i, j \in 1..Len(stages) : i < j /\ stages[i] = "persist" /\ stages[j] = "deliver"
        /\ \A i \in 1..Len(stdout) : stdout[i] \notin {"wrote", "sent"}

\* The endpoint answered a run with ok false.
C3_Witness == response = "notok" /\ netCalls = 1

(***************************************************************************)
(* C4.                                                                     *)
(***************************************************************************)
\* C4: a finished run whose source document is readable and whose bot token
\* or chat identifier is absent has made no request, has written today's
\* report and has exit status 0.
C4_SkipAlwaysSucceeds ==
    (pc = "done" /\ src.state = "ok" /\ (token = "unset" \/ chatId = "unset")) =>
        /\ netCalls = 0
        /\ TodaysEntry \in files
        /\ exitCode = 0

(***************************************************************************)
(* C5.                                                                     *)
(***************************************************************************)
\* C5: when the output directory is missing or cannot be read at the time the
\* prior reports are looked up, the lookup does not end the run and the prior
\* reference is N/A.
C5_UnreadableDirIsNoPrior ==
    ((Completed("discover") \/ failedAt = "discover") /\ dirState # "ok") =>
        /\ failedAt # "discover"
        /\ yesterdayRef = NotAvailable

(***************************************************************************)
(* C6.                                                                     *)
(***************************************************************************)
\* The place of a stage in the order the specification gives.
StatedRank(s) ==
    CASE s = "read" -> 1
      [] s = "discover" -> 2
      [] s = "extract" -> 3
      [] s = "render" -> 4
      [] s = "persist" -> 5
      [] s = "deliver" -> 6
      [] s = "exit" -> 7
      [] OTHER -> 0

\* The place of a stage in the order of the statements of the source; the
\* creation of the directory and the rendering of the summary have places too.
SourceRank(s) ==
    CASE s = "read" -> 1
      [] s = "mkdir" -> 2
      [] s = "extract" -> 3
      [] s = "discover" -> 4
      [] s = "render" -> 5
      [] s = "persist" -> 6
      [] s = "summary" -> 7
      [] s = "deliver" -> 8
      [] s = "exit" -> 9
      [] OTHER -> 0

\* C6 as stated: the stages a run has completed are in the order Read,
\* Discover prior report, Extract, Render, Persist, Deliver, Exit, each at
\* most once.
C6_StatedOrder ==
    \A i, j \in 1..Len(stages) :
        (i < j /\ StatedRank(stages[i]) > 0 /\ StatedRank(stages[j]) > 0)
            => StatedRank(stages[i]) < StatedRank(stages[j])

\* The stages completed are in the order of the source, each at most once, and
\* a run that has ended has exit status 0 and no failure, or status 1 and a
\* failure.
LinearRun ==
    /\ \A i, j \in 1..Len(stages) :
          i < j => (SourceRank(stages[i]) > 0 /\ SourceRank(stages[i]) < SourceRank(stages[j]))
    /\ pc = "done" => /\ exitCode \in {0, 1}
                      /\ exitCode = 0 <=> failedAt = ""
                      /\ stages[Len(stages)] = "exit"
    /\ pc # "done" => exitCode = -1 /\ ~Completed("exit")

\* The place of a statement group in the source.
PcRank(p) ==
    CASE p = "read" -> 1
      [] p = "mkdir" -> 2
      [] p = "extract" -> 3
      [] p = "discover" -> 4
      [] p = "render" -> 5
      [] p = "persist" -> 6
      [] p = "summary" -> 7
      [] p = "send" -> 8
      [] p = "await" -> 9
      [] p = "log" -> 10
      [] p = "done" -> 11
      [] OTHER -> 0

\* C6, amended: every run passes through its stages in the order Read, Extract,
\* Discover prior report, Render, Persist, (optional) Deliver, Exit, each at
\* most once and none retried; every step of a run moves it forward in the
\* source, and a run that has not ended always has a next step (the arrival of
\* the endpoint's answer or of the request's failure, while it waits), so
\* that it ends, in success or in fatal failure, after at most ten steps.
C6_SourceOrder ==
    /\ [](LinearRun /\ (pc # "done" => ENABLED RunStep))
    /\ [][RunStep => PcRank(pc') > PcRank(pc)]_vars

\* A run that went through every stage, delivery included, and succeeded.
C6_Witness ==
    /\ pc = "done"
    /\ exitCode = 0
    /\ stages = <<"read", "mkdir", "extract", "discover", "render", "persist", "summary",
                  "deliver", "exit">>

(***************************************************************************)
(* C7.                                                                     *)
(***************************************************************************)
\* C7: for a document in which a line "## <heading>" occurs, extractSection
\* returns the text between the first such line and the next second-level
\* heading line (or the end of the document), trimmed.
C7_SectionOfFirstHeadingLine ==
    (called /\ HasHeadingLine(input.md, input.heading)) =>
        output = SectionByLines(input.md, input.heading)

(***************************************************************************)
(* C8.                                                                     *)
(***************************************************************************)
\* C8: findLatestBrief returns the file of the directory whose name without
\* .md is the greatest, in string order, among the names of the form
\* YYYY-MM-DD.md; the other names do not change the result; and the result is
\* none exactly when the directory holds no name of that form (a missing
\* directory holds none).
C8_LatestDatedName ==
    called =>
        LET dated == {f \in input.names : IsDatedFileName(f)}
        IN /\ ~output.throws
           /\ output.found <=> dated # {}
           /\ output.found =>
                \E f \in dated :
                    /\ output.path = pathJoin(briefDirPath, f)
                    /\ \A g \in dated : ~StrLess(WithoutExtension(f), WithoutExtension(g))
           /\ output = findLatestBrief([state |-> input.state, names |-> dated])

\* A directory with two dated briefs and a name that is not a date.
C8_Witness ==
    /\ called
    /\ output.found
    /\ Cardinality({f \in input.names : IsDatedFileName(f)}) >= 2
    /\ \E f \in input.names : ~IsDatedFileName(f) /\ endsWith(f, DotMd)

ShownFor(heading, text, placeholder) ==
    IF ~HasHeadingLine(priorities, heading) \/ text = <<>> THEN placeholder ELSE text

\* C10: the long-form report shows, for the top priorities, the blockers, the
\* decisions and the notes, the placeholder of the section when its heading is
\* missing from the document or its extracted text is empty, and the extracted
\* text unchanged otherwise.
C10_PlaceholderWhenMissing ==
    Rendered =>
        /\ managerReport.top = ShownFor(TodayTopHeading, sections.todayTop, NotSetLong)
        /\ managerReport.blockers = ShownFor(BlockersHeading, sections.blockers, NoneListed)
        /\ managerReport.decisions = ShownFor(DecisionsHeading, sections.decisions, NoneListed)
        /\ managerReport.notes = ShownFor(NotesHeading, sections.notes, NoNotes)

====
